---- MODULE Spec2Model ----
(***************************************************************************)
(* Model of backend/app.py: the line-addressable text extractors, the     *)
(* in-memory document store and the four request handlers (upload, ask,   *)
(* challenge, evaluate_challenge).                                         *)
(*                                                                         *)
(* Conventions.  A Python string is a sequence of one-character strings;  *)
(* a location marker produced by an f-string ("[Line 3] ") is one element *)
(* of that sequence.  A Python "str or None" is a sequence of length 0    *)
(* (None) or 1 (the value).  A dict is a function whose DOMAIN is its key *)
(* set.                                                                    *)
(***************************************************************************)
EXTENDS Integers, Sequences, FiniteSets, TLC

VARIABLES
    document_content,  \* app.py:149  filename -> extracted text
    disk,              \* the uploads folder: filename -> bytes last saved
    lastReq,           \* the request handled last and its response
    upHist,            \* per filename: what its last two saved uploads extracted
    everOk,            \* filenames some upload of which extracted successfully
    pc,                \* ConcSpec: each upload worker's position
    loc,               \* ConcSpec: each upload worker's locals, and the bytes it read
    writeLog,          \* ConcSpec: the workers in the order of their store writes
    exIn,              \* ExtractSpec: the file handed to an extractor
    exOut,             \* ExtractSpec: what the extractor returned
    exPhase            \* ExtractSpec: "new" | "txt" | "pdf"

vars == <<document_content, disk, lastReq, upHist, everOk, pc, loc, writeLog,
          exIn, exOut, exPhase>>

-----------------------------------------------------------------------------
(* Bounds of the model *)

MaxLen == 4
MaxPages == 2
MaxPageLen == 2
MaxQuestions == 2

-----------------------------------------------------------------------------
(* Python values *)

None == <<>>
Some(v) == <<v>>

\* Python truthiness of a "str or None": None and "" are falsy.
Truthy(opt) == opt # None /\ opt[1] # <<>>

Whitespace == {" ", "\n"}
Alphabet == {"a", " ", "\n"}

RECURSIVE SeqsUpTo(_, _)
SeqsUpTo(S, n) ==
    IF n = 0 THEN {<<>>}
    ELSE LET shorter == SeqsUpTo(S, n - 1)
         IN  shorter \cup {Append(s, c) : s \in shorter, c \in S}

\* Position of the first "\n" of s, 0 when there is none.
RECURSIVE FirstNewline(_, _)
FirstNewline(s, from) ==
    IF from > Len(s) THEN 0
    ELSE IF s[from] = "\n" THEN from
    ELSE FirstNewline(s, from + 1)

\* file.readlines(): the lines with their terminators kept.
RECURSIVE readlines(_)
readlines(s) ==
    IF s = <<>> THEN <<>>
    ELSE LET k == FirstNewline(s, 1)
         IN  IF k = 0 THEN <<s>>
             ELSE <<SubSeq(s, 1, k)>> \o readlines(SubSeq(s, k + 1, Len(s)))

\* str.split('\n'): the pieces between the separators; "" gives [""].
RECURSIVE split(_)
split(s) ==
    LET k == FirstNewline(s, 1)
    IN  IF k = 0 THEN <<s>>
        ELSE <<SubSeq(s, 1, k - 1)>> \o split(SubSeq(s, k + 1, Len(s)))

RECURSIVE lstrip(_)
lstrip(s) ==
    IF s # <<>> /\ Head(s) \in Whitespace THEN lstrip(Tail(s)) ELSE s

RECURSIVE rstrip(_)
rstrip(s) ==
    IF s # <<>> /\ s[Len(s)] \in Whitespace THEN rstrip(SubSeq(s, 1, Len(s) - 1)) ELSE s

\* str.strip()
strip(s) == rstrip(lstrip(s))

-----------------------------------------------------------------------------
(* extract_text_from_txt, app.py:94-118 *)

\* f"[Line {i + 1}] "
LineMarker(i) == "[Line " \o ToString(i + 1) \o "] "

\* Mutant: the counter advances only on non-blank lines.
RECURSIVE TxtLoopSkipBlank(_, _, _)
TxtLoopSkipBlank(lines, i, text) ==
    IF lines = <<>> THEN text
    ELSE LET line == Head(lines)
         IN  IF strip(line) # <<>>
             THEN TxtLoopSkipBlank(Tail(lines), i + 1, text \o <<LineMarker(i)>> \o line)
             ELSE TxtLoopSkipBlank(Tail(lines), i, text \o <<"\n">>)

TxtEmit_SkipBlank(lines) == TxtLoopSkipBlank(lines, 0, <<>>)

\* for i, line in enumerate(lines): ...   (app.py:109-113)
RECURSIVE TxtLoop(_, _, _)
TxtLoop(lines, i, text) ==
    IF i >= Len(lines) THEN text
    ELSE LET line == lines[i + 1]
         IN  IF strip(line) # <<>>
             THEN TxtLoop(lines, i + 1, text \o <<LineMarker(i)>> \o line)
             ELSE TxtLoop(lines, i + 1, text \o <<"\n">>)

TxtEmit(lines) == TxtLoop(lines, 0, <<>>)

\* bytes: [readable, chars, pages]; an unreadable file raises in open/decode.
extract_text_from_txt(bytes) ==
    IF ~bytes.readable THEN None
    ELSE Some(TxtEmit(readlines(bytes.chars)))

-----------------------------------------------------------------------------
(* extract_text_from_pdf, app.py:64-91 *)

\* f"[Page {page_num + 1}, Line {i + 1}] "
PageMarker(page_num, i) ==
    "[Page " \o ToString(page_num + 1) \o ", Line " \o ToString(i + 1) \o "] "

\* for i, line in enumerate(lines): ...   (app.py:82-86)
RECURSIVE PdfLineLoop(_, _, _, _)
PdfLineLoop(lines, page_num, i, text) ==
    IF i >= Len(lines) THEN text
    ELSE LET line == lines[i + 1]
         IN  IF strip(line) # <<>>
             THEN PdfLineLoop(lines, page_num, i + 1,
                              text \o <<PageMarker(page_num, i)>> \o line \o <<"\n">>)
             ELSE PdfLineLoop(lines, page_num, i + 1, text \o <<"\n">>)

\* Mutant: the page number is printed 0-based.
PdfPage_ZeroBasedPage(page, page_num, text) ==
    LET page_text == IF page.text = None THEN <<>> ELSE page.text[1]
    IN  PdfLineLoop(split(page_text), page_num - 1, 0, text)

\* One iteration of the page loop: page_text = page.extract_text() or "".
PdfPage(page, page_num, text) ==
    LET page_text == IF page.text = None THEN <<>> ELSE page.text[1]
    IN  PdfLineLoop(split(page_text), page_num, 0, text)

\* for page_num, page in enumerate(reader.pages); an exception anywhere
\* discards what was accumulated and returns None.
RECURSIVE PdfLoop(_, _, _)
PdfLoop(pages, page_num, text) ==
    IF page_num >= Len(pages) THEN Some(text)
    ELSE LET page == pages[page_num + 1]
         IN  IF page.raises THEN None
             ELSE PdfLoop(pages, page_num + 1, PdfPage(page, page_num, text))

extract_text_from_pdf(bytes) ==
    IF ~bytes.readable THEN None
    ELSE PdfLoop(bytes.pages, 0, <<>>)

-----------------------------------------------------------------------------
(* Files *)

TxtBytes(chars) == [readable |-> TRUE, chars |-> chars, pages |-> <<>>]
PdfBytes(pages) == [readable |-> TRUE, chars |-> <<>>, pages |-> pages]
\* Bytes that cannot be decoded or parsed as the declared kind.
Garbage == [readable |-> FALSE, chars |-> <<>>, pages |-> <<>>]

\* A page whose extract_text() raises, returns None, or returns a string.
RaisingPage == [raises |-> TRUE, text |-> None]
TextPage(opt) == [raises |-> FALSE, text |-> opt]

ExPages ==
    {RaisingPage, TextPage(None)}
        \cup {TextPage(Some(t)) : t \in SeqsUpTo(Alphabet, MaxPageLen)}

ExInputs ==
    {[kind |-> "txt", bytes |-> Garbage], [kind |-> "pdf", bytes |-> Garbage]}
        \cup {[kind |-> "txt", bytes |-> TxtBytes(c)] : c \in SeqsUpTo(Alphabet, MaxLen)}
        \cup {[kind |-> "pdf", bytes |-> PdfBytes(ps)] : ps \in SeqsUpTo(ExPages, MaxPages)}

-----------------------------------------------------------------------------
(* allowed_file, app.py:44-61 *)

Dot == "."
F_txt == <<"n", ".", "t", "x", "t">>
F_pdf == <<"d", ".", "P", "D", "F">>
F_exe == <<"x", ".", "e", "x", "e">>
F_noext == <<"r">>
F_missing == <<"m", ".", "p", "d", "f">>

LowerOf(c) ==
    CASE c = "P" -> "p" [] c = "D" -> "d" [] c = "F" -> "f" [] OTHER -> c

\* str.lower()
lower(s) == [i \in 1..Len(s) |-> LowerOf(s[i])]

\* Position of the last "." of s, 0 when there is none.
RECURSIVE LastDot(_, _)
LastDot(s, from) ==
    IF from = 0 THEN 0
    ELSE IF s[from] = Dot THEN from
    ELSE LastDot(s, from - 1)

\* filename.rsplit('.', 1)[1]
Extension(filename) == SubSeq(filename, LastDot(filename, Len(filename)) + 1, Len(filename))

ALLOWED_EXTENSIONS == {<<"p", "d", "f">>, <<"t", "x", "t">>}

allowed_file(filename) ==
    /\ LastDot(filename, Len(filename)) # 0
    /\ lower(Extension(filename)) \in ALLOWED_EXTENSIONS

\* str.endswith
endswith(s, suffix) ==
    /\ Len(s) >= Len(suffix)
    /\ SubSeq(s, Len(s) - Len(suffix) + 1, Len(s)) = suffix

\* app.py:192-196: the extractor is chosen by the filename's ending.
ExtractFor(filename, bytes) ==
    IF endswith(lower(filename), <<".", "p", "d", "f">>) THEN extract_text_from_pdf(bytes)
    ELSE IF endswith(lower(filename), <<".", "t", "x", "t">>) THEN extract_text_from_txt(bytes)
    ELSE None

-----------------------------------------------------------------------------
(* get_gemini_response, app.py:121-144 *)

\* What the remote model does on one call: raises, returns no candidate or
\* content part, or returns a text (possibly empty).
Raises == [kind |-> "raise", text |-> <<>>]
NoCandidate == [kind |-> "no_candidate", text |-> <<>>]
Text(t) == [kind |-> "text", text |-> t]

\* The record of one generate_content call: what was sent, what came back.
Call(prompt, generation_config, text) ==
    [prompt |-> prompt, config |-> generation_config, result |-> text]

\* Mutant: a failed call is issued a second time.
get_gemini_response_Retry(prompt, generation_config, outcome) ==
    IF outcome.kind = "text"
    THEN [calls |-> <<Call(prompt, generation_config, Some(outcome.text))>>,
          text |-> Some(outcome.text)]
    ELSE [calls |-> <<Call(prompt, generation_config, None), Call(prompt, generation_config, None)>>,
          text |-> None]

\* One generate_content call; the text of the first part of the first
\* candidate, or None when the call raises or brings no candidate or part.
get_gemini_response(prompt, generation_config, outcome) ==
    IF outcome.kind = "text"
    THEN [calls |-> <<Call(prompt, generation_config, Some(outcome.text))>>,
          text |-> Some(outcome.text)]
    ELSE [calls |-> <<Call(prompt, generation_config, None)>>, text |-> None]

NoConfig == "none"
JsonArrayConfig == "application/json ARRAY of STRING"

-----------------------------------------------------------------------------
(* json.loads on the tokens of a raw text *)

StrTokens == {"Q1", "Q2", "Q3", "Q4"}
NumTokens == {"7"}

JString(t) == [type |-> "string", str |-> t, items |-> <<>>]
JNumber(t) == [type |-> "number", str |-> t, items |-> <<>>]
JArray(items) == [type |-> "array", str |-> "", items |-> items]
ParseFail == [ok |-> FALSE, val |-> JString(""), next |-> 0]

\* A value starting at toks[pos]: [ok, val, next].
RECURSIVE ParseValue(_, _)
RECURSIVE ParseItems(_, _, _)
ParseValue(toks, pos) ==
    IF pos > Len(toks) THEN ParseFail
    ELSE IF toks[pos] \in StrTokens THEN [ok |-> TRUE, val |-> JString(toks[pos]), next |-> pos + 1]
    ELSE IF toks[pos] \in NumTokens THEN [ok |-> TRUE, val |-> JNumber(toks[pos]), next |-> pos + 1]
    ELSE IF toks[pos] = "["
         THEN IF pos + 1 <= Len(toks) /\ toks[pos + 1] = "]"
              THEN [ok |-> TRUE, val |-> JArray(<<>>), next |-> pos + 2]
              ELSE ParseItems(toks, pos + 1, <<>>)
    ELSE ParseFail

\* value ("," value)* "]"
ParseItems(toks, pos, items) ==
    LET v == ParseValue(toks, pos)
    IN  IF ~v.ok \/ v.next > Len(toks) THEN ParseFail
        ELSE IF toks[v.next] = "]"
             THEN [ok |-> TRUE, val |-> JArray(Append(items, v.val)), next |-> v.next + 1]
        ELSE IF toks[v.next] = ","
             THEN ParseItems(toks, v.next + 1, Append(items, v.val))
        ELSE ParseFail

\* json.loads: [ok, val]; not ok is JSONDecodeError (also on trailing data).
json_loads(toks) ==
    LET v == ParseValue(toks, 1)
    IN  IF v.ok /\ v.next = Len(toks) + 1 THEN [ok |-> TRUE, val |-> v.val]
        ELSE [ok |-> FALSE, val |-> v.val]

-----------------------------------------------------------------------------
(* The document store, app.py:149 *)

\* document_content.get(name)
StoreGet(store, name) == IF name \in DOMAIN store THEN Some(store[name]) ELSE None

\* Mutant: the store keeps the text of the first upload of a name.
StorePut_KeepFirst(store, name, text) ==
    IF name \in DOMAIN store THEN store ELSE (name :> text) @@ store

\* document_content[filename] = extracted_text
StorePut(store, name, text) == (name :> text) @@ store

Response(op, in, status, body, calls) ==
    [op |-> op, in |-> in, status |-> status, body |-> body, calls |-> calls]

ErrorBody(msg) == [error |-> msg]

-----------------------------------------------------------------------------
(* upload_document, app.py:156-219 *)

SummaryPrompt(extracted_text) ==
    <<"Summarize the following document in no more than 150 words. Focus on the main points. Document content: ",
      extracted_text>>

\* Lines 179-186: the checks before the file is saved.
UploadRejection(file) ==
    IF ~file.present THEN "No file part"
    ELSE IF file.filename = <<>> THEN "No selected file"
    ELSE IF ~allowed_file(file.filename) THEN "File type not allowed"
    ELSE ""

\* Mutant: the summary is generated before the text is stored, and a failed
\* summary returns early.
UploadStore_AfterSummary(store, filename, extracted, outcome) ==
    IF ~Truthy(extracted) THEN store
    ELSE IF Truthy(get_gemini_response(SummaryPrompt(extracted[1]), NoConfig, outcome).text)
    THEN StorePut(store, filename, extracted[1])
    ELSE store

\* Lines 198-202: the store after the extraction check; the summary's
\* outcome plays no part.
UploadStore(store, filename, extracted, outcome) ==
    IF ~Truthy(extracted) THEN store
    ELSE StorePut(store, filename, extracted[1])

\* Lines 198-219: the response once the file is saved and extracted.
UploadResponse(file, extracted, outcome) ==
    IF ~Truthy(extracted)
    THEN Response("upload", file, 500, ErrorBody("Failed to extract text from document"), <<>>)
    ELSE LET g == get_gemini_response(SummaryPrompt(extracted[1]), NoConfig, outcome)
         IN  IF Truthy(g.text)
             THEN Response("upload", file, 200,
                           [message |-> "File uploaded and summarized successfully",
                            summary |-> g.text[1]], g.calls)
             ELSE Response("upload", file, 500, ErrorBody("Failed to generate summary"), g.calls)

-----------------------------------------------------------------------------
(* ask_question, app.py:245-268 *)

AskPrompt(query, doc_text) ==
    <<"Based on the following document, answer the question: '", query,
      "'. Provide justification using [Page X, Line Y] or [Line Y] markers.\n\nDocument content: ",
      doc_text>>

ask_question(store, in, outcome) ==
    IF ~Truthy(in.query) \/ ~Truthy(in.documentName)
    THEN Response("ask", in, 400, ErrorBody("Missing query or document name"), <<>>)
    ELSE LET doc_text == StoreGet(store, in.documentName[1])
         IN  IF ~Truthy(doc_text)
             THEN Response("ask", in, 404,
                           ErrorBody("Document content not found. Please upload the document again."),
                           <<>>)
             ELSE LET g == get_gemini_response(AskPrompt(in.query[1], doc_text[1]), NoConfig, outcome)
                  IN  IF Truthy(g.text)
                      THEN Response("ask", in, 200, [answer |-> g.text[1]], g.calls)
                      ELSE Response("ask", in, 500,
                                    ErrorBody("Failed to get an answer from the assistant"), g.calls)

-----------------------------------------------------------------------------
(* generate_challenge_questions, app.py:298-333 *)

ChallengePrompt(doc_text) ==
    <<"Generate three distinct logic-based or comprehension-focused questions based on the following document. Provide them as a JSON array: [\"Q1\", \"Q2\", \"Q3\"]\n\nDocument content: ",
      doc_text>>

\* Mutant: an unknown document is reported as a server-side failure.
generate_challenge_questions_NotFoundAs500(store, in, outcome) ==
    IF ~Truthy(in.documentName)
    THEN Response("challenge", in, 400, ErrorBody("Missing document name"), <<>>)
    ELSE LET doc_text == StoreGet(store, in.documentName[1])
         IN  IF ~Truthy(doc_text)
             THEN Response("challenge", in, 500, ErrorBody("Document content not found."), <<>>)
             ELSE LET g == get_gemini_response(ChallengePrompt(doc_text[1]), JsonArrayConfig, outcome)
                  IN  IF Truthy(g.text)
                      THEN LET decoded == json_loads(g.text[1])
                           IN  IF decoded.ok
                               THEN Response("challenge", in, 200, [questions |-> decoded.val], g.calls)
                               ELSE Response("challenge", in, 500,
                                             ErrorBody("Invalid JSON from assistant"), g.calls)
                      ELSE Response("challenge", in, 500,
                                    ErrorBody("Failed to generate challenge questions"), g.calls)

generate_challenge_questions(store, in, outcome) ==
    IF ~Truthy(in.documentName)
    THEN Response("challenge", in, 400, ErrorBody("Missing document name"), <<>>)
    ELSE LET doc_text == StoreGet(store, in.documentName[1])
         IN  IF ~Truthy(doc_text)
             THEN Response("challenge", in, 404, ErrorBody("Document content not found."), <<>>)
             ELSE LET g == get_gemini_response(ChallengePrompt(doc_text[1]), JsonArrayConfig, outcome)
                  IN  IF Truthy(g.text)
                      THEN LET decoded == json_loads(g.text[1])
                           IN  IF decoded.ok
                               THEN Response("challenge", in, 200, [questions |-> decoded.val], g.calls)
                               ELSE Response("challenge", in, 500,
                                             ErrorBody("Invalid JSON from assistant"), g.calls)
                      ELSE Response("challenge", in, 500,
                                    ErrorBody("Failed to generate challenge questions"), g.calls)

-----------------------------------------------------------------------------
(* evaluate_challenge_answers, app.py:368-392 *)

EvalPrompt(user_answer, question, doc_text) ==
    <<"Based on the document, evaluate if this answer: '", user_answer,
      "' is correct for the question: '", question,
      "'. Give a verdict (Correct/Partially Correct/Incorrect) and justify using [Page X, Line Y] or [Line Y] markers.\n\nDocument content: ",
      doc_text>>

EvaluationNotAvailable == <<"Evaluation not available.">>

\* user_answers.get(str(index), '')
AnswerGet(user_answers, index) ==
    IF ToString(index) \in DOMAIN user_answers THEN user_answers[ToString(index)] ELSE <<>>

\* Mutant: the loop stops at the first failed generation.
RECURSIVE EvalLoop_AbortOnFailure(_, _, _, _, _, _, _)
EvalLoop_AbortOnFailure(questions, user_answers, doc_text, outcomes, index, feedback, calls) ==
    IF index >= Len(questions) THEN [feedback |-> feedback, calls |-> calls]
    ELSE LET g == get_gemini_response(
                      EvalPrompt(AnswerGet(user_answers, index), questions[index + 1], doc_text),
                      NoConfig, outcomes[index + 1])
         IN  IF Truthy(g.text)
             THEN EvalLoop_AbortOnFailure(questions, user_answers, doc_text, outcomes, index + 1,
                                          (index :> g.text[1]) @@ feedback, calls \o g.calls)
             ELSE [feedback |-> (index :> EvaluationNotAvailable) @@ feedback,
                   calls |-> calls \o g.calls]

\* for index, question in enumerate(questions): ...   (app.py:381-390)
RECURSIVE EvalLoop(_, _, _, _, _, _, _)
EvalLoop(questions, user_answers, doc_text, outcomes, index, feedback, calls) ==
    IF index >= Len(questions) THEN [feedback |-> feedback, calls |-> calls]
    ELSE LET g == get_gemini_response(
                      EvalPrompt(AnswerGet(user_answers, index), questions[index + 1], doc_text),
                      NoConfig, outcomes[index + 1])
             evaluation == IF Truthy(g.text) THEN g.text[1] ELSE EvaluationNotAvailable
         IN  EvalLoop(questions, user_answers, doc_text, outcomes, index + 1,
                      (index :> evaluation) @@ feedback, calls \o g.calls)

\* "not questions" and "not user_answers" hold for a missing field and for an
\* empty list or dict alike; both are the empty sequence / function here.
evaluate_challenge_answers(store, in, outcomes) ==
    IF ~Truthy(in.documentName) \/ Len(in.questions) = 0 \/ DOMAIN in.userAnswers = {}
    THEN Response("evaluate_challenge", in, 400, ErrorBody("Missing data"), <<>>)
    ELSE LET doc_text == StoreGet(store, in.documentName[1])
         IN  IF ~Truthy(doc_text)
             THEN Response("evaluate_challenge", in, 404, ErrorBody("Document content not found."), <<>>)
             ELSE LET r == EvalLoop(in.questions, in.userAnswers, doc_text[1], outcomes, 0, <<>>, <<>>)
                  IN  Response("evaluate_challenge", in, 200, [feedback |-> r.feedback], r.calls)

-----------------------------------------------------------------------------
(* Inputs of the request handlers *)

Hello == <<"a", "\n", "\n", "a", "\n">>
Other == <<" ", "a">>
OnePage == <<TextPage(Some(<<"a", "\n", "a">>))>>

NoFile == [present |-> FALSE, filename |-> <<>>, bytes |-> Garbage]
File(filename, bytes) == [present |-> TRUE, filename |-> filename, bytes |-> bytes]

UploadFiles ==
    {NoFile, File(<<>>, Garbage), File(F_exe, TxtBytes(Hello)), File(F_noext, TxtBytes(Hello)),
     File(F_txt, TxtBytes(Hello)), File(F_txt, TxtBytes(Other)), File(F_txt, TxtBytes(<<>>)),
     File(F_pdf, PdfBytes(OnePage)), File(F_pdf, Garbage)}

Filenames == {F_txt, F_pdf, F_exe, F_noext, F_missing}

G1 == <<"o", "k">>
Outcomes == {Raises, NoCandidate, Text(<<>>), Text(G1)}
\* Per question of an evaluation; raising and returning no candidate end alike.
EvalOutcomes == {Raises, Text(<<>>), Text(G1)}

RawTexts ==
    {<<"[", "Q1", ",", "Q2", ",", "Q3", "]">>,
     <<"[", "Q1", ",", "Q2", "]">>,
     <<"[", "Q1", ",", "Q2", ",", "Q3", ",", "Q4", "]">>,
     <<"[", "Q1", ",">>,
     <<"7">>,
     <<"not", "json">>,
     <<>>}
RawOutcomes == {Raises, NoCandidate} \cup {Text(r) : r \in RawTexts}

Queries == {Some(<<>>), Some(<<"w", "h", "y">>)}
DocumentNames == {None, Some(F_txt), Some(F_pdf), Some(F_missing)}

QuestionList(k) == [i \in 1..k |-> <<"Q", ToString(i)>>]
AnswerKeys(k) == {ToString(i) : i \in 0..(k - 1)}
\* The answers keyed "0".."j-1".
AnswerDict(j) == [key \in AnswerKeys(j) |-> <<"A", key>>]

\* For the uploaded text file: every question count with the answers
\* complete, lacking all but the first, or absent; for an absent or unknown
\* document name: complete answers.
EvaluateInputs ==
    {[documentName |-> Some(F_txt), questions |-> QuestionList(k), userAnswers |-> AnswerDict(j)] :
        k \in 0..MaxQuestions, j \in {0, 1, MaxQuestions}}
      \cup
    {[documentName |-> d, questions |-> QuestionList(k), userAnswers |-> AnswerDict(k)] :
        d \in {None, Some(F_missing)}, k \in 0..MaxQuestions}

-----------------------------------------------------------------------------
(* State *)

NoRequest == Response("none", <<>>, 0, <<>>, <<>>)

Last2(seq) == IF Len(seq) > 2 THEN SubSeq(seq, Len(seq) - 1, Len(seq)) ELSE seq

IdleWorkers == [w \in {1, 2} |-> "idle"]
NoLocals ==
    [w \in {1, 2} |-> [file |-> NoFile, read |-> Garbage, extracted |-> None, response |-> NoRequest]]

HandlersQuiet ==
    /\ lastReq = NoRequest
    /\ upHist = [f \in Filenames |-> <<>>]
    /\ everOk = {}
UploadsQuiet == pc = IdleWorkers /\ loc = NoLocals /\ writeLog = <<>>
ExtractQuiet == exIn = [kind |-> "none", bytes |-> Garbage] /\ exOut = None /\ exPhase = "off"

\* document_content = {} and an empty uploads folder.
Init ==
    /\ document_content = <<>>
    /\ disk = <<>>
    /\ HandlersQuiet
    /\ UploadsQuiet
    /\ ExtractQuiet

othervars == <<pc, loc, writeLog, exIn, exOut, exPhase>>

-----------------------------------------------------------------------------
(* The request handlers, each as one step *)

\* POST /upload
Upload(file, outcome) ==
    IF UploadRejection(file) # ""
    THEN /\ lastReq' = Response("upload", file, 400, ErrorBody(UploadRejection(file)), <<>>)
         /\ UNCHANGED <<document_content, disk, upHist, everOk, othervars>>
    ELSE LET filename == file.filename
             saved == (filename :> file.bytes) @@ disk
             extracted == ExtractFor(filename, saved[filename])
             resp == UploadResponse(file, extracted, outcome)
         IN  /\ disk' = saved
             /\ document_content' = UploadStore(document_content, filename, extracted, outcome)
             /\ lastReq' = resp
             /\ upHist' = [upHist EXCEPT ![filename] =
                              Last2(Append(@, extracted))]
             /\ everOk' = IF Truthy(extracted) THEN everOk \cup {filename} ELSE everOk
             /\ UNCHANGED othervars

\* POST /ask
Ask(in, outcome) ==
    /\ lastReq' = ask_question(document_content, in, outcome)
    /\ UNCHANGED <<document_content, disk, upHist, everOk, othervars>>

\* POST /challenge
Challenge(in, outcome) ==
    /\ lastReq' = generate_challenge_questions(document_content, in, outcome)
    /\ UNCHANGED <<document_content, disk, upHist, everOk, othervars>>

\* POST /evaluate_challenge
EvaluateChallenge(in, outcomes) ==
    /\ lastReq' = evaluate_challenge_answers(document_content, in, outcomes)
    /\ UNCHANGED <<document_content, disk, upHist, everOk, othervars>>

Next ==
    \/ \E file \in UploadFiles, outcome \in Outcomes : Upload(file, outcome)
    \/ \E q \in Queries, d \in DocumentNames, outcome \in Outcomes :
          Ask([query |-> q, documentName |-> d], outcome)
    \/ \E d \in DocumentNames, outcome \in RawOutcomes :
          Challenge([documentName |-> d], outcome)
    \/ \E in \in EvaluateInputs : \E outcomes \in [1..Len(in.questions) -> EvalOutcomes] :
          EvaluateChallenge(in, outcomes)

Spec == Init /\ [][Next]_vars

-----------------------------------------------------------------------------
(* The extractors on their own, over every small file *)

ExInit ==
    /\ document_content = <<>>
    /\ disk = <<>>
    /\ HandlersQuiet
    /\ UploadsQuiet
    /\ exIn \in ExInputs
    /\ exOut = None
    /\ exPhase = "new"

RunTxt ==
    /\ exPhase = "new"
    /\ exIn.kind = "txt"
    /\ exOut' = extract_text_from_txt(exIn.bytes)
    /\ exPhase' = "txt"
    /\ UNCHANGED <<document_content, disk, lastReq, upHist, everOk, pc, loc, writeLog, exIn>>

RunPdf ==
    /\ exPhase = "new"
    /\ exIn.kind = "pdf"
    /\ exOut' = extract_text_from_pdf(exIn.bytes)
    /\ exPhase' = "pdf"
    /\ UNCHANGED <<document_content, disk, lastReq, upHist, everOk, pc, loc, writeLog, exIn>>

ExNext == RunTxt \/ RunPdf

ExtractSpec == ExInit /\ [][ExNext]_vars

-----------------------------------------------------------------------------
(* Two uploads handled by two threads of the server, step by step *)

Workers == {1, 2}

ConcFiles ==
    {File(F_txt, TxtBytes(Hello)), File(F_txt, TxtBytes(Other)), File(F_txt, TxtBytes(<<"a">>))}

\* file.save writes its bytes from offset 0 of the file it opened; what another
\* writer put beyond them stays.
Overlay(bytes, existing) ==
    TxtBytes(bytes.chars \o SubSeq(existing.chars, Len(bytes.chars) + 1, Len(existing.chars)))

ConcInit ==
    /\ document_content = <<>>
    /\ disk = <<>>
    /\ HandlersQuiet
    /\ ExtractQuiet
    /\ pc = [w \in Workers |-> "start"]
    /\ loc \in [Workers -> {[file |-> f, read |-> Garbage, extracted |-> None, response |-> NoRequest] :
                                f \in ConcFiles}]
    /\ writeLog = <<>>

concquiet == <<lastReq, upHist, everOk, exIn, exOut, exPhase>>

\* Lines 179-189: the checks, then file.save opens (and truncates) the file.
CSaveOpen(w) ==
    /\ pc[w] = "start"
    /\ IF UploadRejection(loc[w].file) # ""
       THEN /\ pc' = [pc EXCEPT ![w] = "done"]
            /\ loc' = [loc EXCEPT ![w].response =
                         Response("upload", loc[w].file, 400,
                                  ErrorBody(UploadRejection(loc[w].file)), <<>>)]
            /\ UNCHANGED disk
       ELSE /\ pc' = [pc EXCEPT ![w] = "open"]
            /\ disk' = (loc[w].file.filename :> TxtBytes(<<>>)) @@ disk
            /\ UNCHANGED loc
    /\ UNCHANGED <<document_content, writeLog, concquiet>>

\* Line 189: file.save writes the bytes and closes the file.
CSaveWrite(w) ==
    /\ pc[w] = "open"
    /\ pc' = [pc EXCEPT ![w] = "saved"]
    /\ disk' = [disk EXCEPT ![loc[w].file.filename] = Overlay(loc[w].file.bytes, @)]
    /\ UNCHANGED <<document_content, loc, writeLog, concquiet>>

\* Lines 192-199: the extractor reads the file at filepath.
CExtract(w) ==
    /\ pc[w] = "saved"
    /\ LET extracted == ExtractFor(loc[w].file.filename, disk[loc[w].file.filename])
       IN  IF ~Truthy(extracted)
           THEN /\ pc' = [pc EXCEPT ![w] = "done"]
                /\ loc' = [loc EXCEPT ![w].read = disk[loc[w].file.filename],
                                      ![w].extracted = extracted,
                                      ![w].response = UploadResponse(loc[w].file, extracted, Raises)]
           ELSE /\ pc' = [pc EXCEPT ![w] = "extracted"]
                /\ loc' = [loc EXCEPT ![w].read = disk[loc[w].file.filename],
                                      ![w].extracted = extracted]
    /\ UNCHANGED <<document_content, disk, writeLog, concquiet>>

\* Line 202
CStore(w) ==
    /\ pc[w] = "extracted"
    /\ pc' = [pc EXCEPT ![w] = "stored"]
    /\ document_content' = StorePut(document_content, loc[w].file.filename, loc[w].extracted[1])
    /\ writeLog' = Append(writeLog, w)
    /\ UNCHANGED <<disk, loc, concquiet>>

\* Lines 205-217
CSummarize(w, outcome) ==
    /\ pc[w] = "stored"
    /\ pc' = [pc EXCEPT ![w] = "done"]
    /\ loc' = [loc EXCEPT ![w].response = UploadResponse(loc[w].file, loc[w].extracted, outcome)]
    /\ UNCHANGED <<document_content, disk, writeLog, concquiet>>

ConcNext ==
    \E w \in Workers :
        \/ CSaveOpen(w)
        \/ CSaveWrite(w)
        \/ CExtract(w)
        \/ CStore(w)
        \/ \E outcome \in Outcomes : CSummarize(w, outcome)

ConcSpec == ConcInit /\ [][ConcNext]_vars

-----------------------------------------------------------------------------
(* The addressable text as the specification describes it *)

NewlinePositions(s) == {k \in 1..Len(s) : s[k] = "\n"}
NthOf(S, j) == CHOOSE k \in S : Cardinality({m \in S : m < k}) = j - 1

\* The pieces of s between its newlines.
LinesOf(s) ==
    LET NL == NewlinePositions(s)
        n == Cardinality(NL)
    IN  [j \in 1..(n + 1) |->
            SubSeq(s, IF j = 1 THEN 1 ELSE NthOf(NL, j - 1) + 1,
                      IF j = n + 1 THEN Len(s) ELSE NthOf(NL, j) - 1)]

\* The lines of a flat file: a final newline ends the last line, it starts no new one.
SourceLines(chars) ==
    LET p == LinesOf(chars)
    IN  IF p[Len(p)] = <<>> THEN SubSeq(p, 1, Len(p) - 1) ELSE p

Blank(line) == \A k \in 1..Len(line) : line[k] \in Whitespace

RECURSIVE Flatten(_)
Flatten(seqs) == IF seqs = <<>> THEN <<>> ELSE Head(seqs) \o Flatten(Tail(seqs))

FlatRef(lines) ==
    Flatten([i \in 1..Len(lines) |->
                IF Blank(lines[i]) THEN <<"\n">>
                ELSE <<"[Line " \o ToString(i) \o "] ">> \o lines[i] \o <<"\n">>])

PageRef(p, lines) ==
    Flatten([i \in 1..Len(lines) |->
                IF Blank(lines[i]) THEN <<"\n">>
                ELSE <<"[Page " \o ToString(p) \o ", Line " \o ToString(i) \o "] ">>
                         \o lines[i] \o <<"\n">>])

HasText(page) == page.text # None /\ page.text[1] # <<>>

TxtExtracted == exPhase = "txt" /\ exIn.bytes.readable
PdfExtracted ==
    /\ exPhase = "pdf"
    /\ exIn.bytes.readable
    /\ \A p \in 1..Len(exIn.bytes.pages) : ~exIn.bytes.pages[p].raises

\* The file's last line is non-blank and has no newline after it.
EndsUnterminated(chars) ==
    /\ chars # <<>>
    /\ chars[Len(chars)] # "\n"
    /\ ~Blank(SourceLines(chars)[Len(SourceLines(chars))])

\* C5 as stated: the text of a flat file is, line by line, "[Line i] <line>"
\* and a newline for a non-blank line and a bare newline for a blank one, i
\* the 1-based position in the file, also when the last line has no newline.
C5_FlatEqualsReference ==
    TxtExtracted => exOut = Some(FlatRef(SourceLines(exIn.bytes.chars)))

\* C5 amended: as stated, except that a non-blank last line the file does not
\* end with a newline is emitted without one.
C5_FlatEqualsReferenceUpToFinalNewline ==
    TxtExtracted =>
        LET ref == FlatRef(SourceLines(exIn.bytes.chars))
        IN  exOut = Some(IF EndsUnterminated(exIn.bytes.chars)
                         THEN SubSeq(ref, 1, Len(ref) - 1)
                         ELSE ref)

\* "Hello", "", "World" with no newline after "World".
C5_Witness ==
    /\ TxtExtracted
    /\ exIn.bytes.chars = <<"a", "\n", "\n", "a">>
    /\ exOut = Some(<<"[Line 1] ", "a", "\n", "\n", "[Line 3] ", "a">>)

\* C6: the text of a paginated file is its pages' texts in order; a page with
\* text gives, line by line, "[Page p, Line i] <line>" and a newline for a
\* non-blank line and a bare newline for a blank one, p the 1-based page and i
\* the 1-based position within the page; a page without text gives no marker.
C6_PaginatedMarkers ==
    PdfExtracted =>
        LET pages == exIn.bytes.pages
        IN  \E gap \in [1..Len(pages) -> {<<>>, <<"\n">>}] :
                exOut = Some(Flatten([p \in 1..Len(pages) |->
                                         IF HasText(pages[p])
                                         THEN PageRef(p, LinesOf(pages[p].text[1]))
                                         ELSE gap[p]]))

\* Two pages; the second page's second line is marked Line 2 of Page 2.
C6_Witness ==
    /\ PdfExtracted
    /\ exIn.bytes.pages = <<TextPage(Some(<<"a">>)), TextPage(Some(<<"\n", "a">>))>>
    /\ exOut = Some(<<"[Page 1, Line 1] ", "a", "\n", "\n", "[Page 2, Line 2] ", "a", "\n">>)

\* C7 as stated: a page without extractable text contributes nothing, so the
\* text is that of the pages with text alone.
C7_TextlessPageContributesNothing ==
    PdfExtracted =>
        LET pages == exIn.bytes.pages
        IN  exOut = Some(Flatten([p \in 1..Len(pages) |->
                                     IF HasText(pages[p])
                                     THEN PageRef(p, LinesOf(pages[p].text[1]))
                                     ELSE <<>>]))

-----------------------------------------------------------------------------
(* Claims about the request handlers *)

Lookups == {"ask", "challenge", "evaluate_challenge"}
IsLookup == lastReq.op \in Lookups

\* The required fields of the lookup handled last are all present.
FieldsPresent ==
    /\ Truthy(lastReq.in.documentName)
    /\ lastReq.op = "ask" => Truthy(lastReq.in.query)
    /\ lastReq.op = "evaluate_challenge" =>
          Len(lastReq.in.questions) > 0 /\ DOMAIN lastReq.in.userAnswers # {}

LookedUp == lastReq.in.documentName[1]
Payload == {"answer", "questions", "feedback"}

\* The raw text decodes to an array of exactly three elements.
ThreeElementArray(raw) ==
    /\ raw # None
    /\ json_loads(raw[1]).ok
    /\ json_loads(raw[1]).val.type = "array"
    /\ Len(json_loads(raw[1]).val.items) = 3

\* C1 as stated: a challenge for a known document returns {questions: [...]}
\* only when the raw text decodes to an array of exactly three elements, and
\* ends in an error response without questions for every other raw text.
C1_OnlyThreeElementArrayReturned ==
    (lastReq.op = "challenge" /\ lastReq.calls # <<>>) =>
        IF ThreeElementArray(lastReq.calls[1].result)
        THEN /\ lastReq.status = 200
             /\ lastReq.body = [questions |-> json_loads(lastReq.calls[1].result[1]).val]
        ELSE /\ lastReq.status >= 400
             /\ "questions" \notin DOMAIN lastReq.body

\* An evaluation of k >= 1 questions of a known document, answers keyed "0".."k-1".
EvaluatedKnown ==
    /\ lastReq.op = "evaluate_challenge"
    /\ Truthy(lastReq.in.documentName)
    /\ LookedUp \in DOMAIN document_content
    /\ Len(lastReq.in.questions) >= 1
    /\ DOMAIN lastReq.in.userAnswers = AnswerKeys(Len(lastReq.in.questions))

\* Call i + 1 is the one for question i and its answer.
CallIsForItem(i) ==
    /\ lastReq.calls[i + 1].prompt[4] = lastReq.in.questions[i + 1]
    /\ lastReq.calls[i + 1].prompt[2] = lastReq.in.userAnswers[ToString(i)]

TwoUploadsExtracted(f) ==
    /\ Len(upHist[f]) = 2
    /\ Truthy(upHist[f][1])
    /\ Truthy(upHist[f][2])

\* An ask about f that reached the model.
AskedAbout(f) ==
    /\ lastReq.op = "ask"
    /\ lastReq.in.documentName = Some(f)
    /\ lastReq.calls # <<>>

\* C3: after two uploads of a name that both extract, the store holds the
\* second upload's text under it, and the prompt of an ask about it embeds the
\* query and that text and no part of it is the first upload's text.
C3_RoundTripOverwrite ==
    \A f \in Filenames :
        TwoUploadsExtracted(f) =>
            /\ f \in DOMAIN document_content
            /\ document_content[f] = upHist[f][2][1]
            /\ AskedAbout(f) =>
                  LET prompt == lastReq.calls[1].prompt
                  IN  /\ Len(prompt) = 4
                      /\ prompt[2] = lastReq.in.query[1]
                      /\ prompt[4] = upHist[f][2][1]
                      /\ upHist[f][1] # upHist[f][2] =>
                            \A j \in {2, 4} : prompt[j] # upHist[f][1][1]

\* Hello then Other uploaded as n.txt, then an ask about n.txt.
C3_Witness ==
    /\ upHist[F_txt] = <<Some(<<"[Line 1] ", "a", "\n", "\n", "[Line 3] ", "a", "\n">>),
                         Some(<<"[Line 1] ", " ", "a">>)>>
    /\ AskedAbout(F_txt)
    /\ lastReq.status = 200
    /\ lastReq.calls[1].prompt[4] = <<"[Line 1] ", " ", "a">>

\* C4 as stated: a lookup, its fields present, of a name never uploaded or whose
\* most recent upload failed extraction answers 404 and carries no answer,
\* questions or feedback.
C4_NotFoundAfterFailedUpload ==
    (IsLookup /\ FieldsPresent
        /\ (upHist[LookedUp] = <<>> \/ ~Truthy(upHist[LookedUp][Len(upHist[LookedUp])]))) =>
        /\ lastReq.status = 404
        /\ DOMAIN lastReq.body \cap Payload = {}

\* C4 amended: a lookup, its fields present, of a name no upload of which ever
\* extracted successfully answers 404 (not the 500 of a failed extraction or
\* generation) and carries no answer, questions or feedback; a name that was
\* stored once is found, also after a later upload of it failed extraction.
C4_NotFoundWithoutRecord ==
    (IsLookup /\ FieldsPresent) =>
        IF LookedUp \notin everOk
        THEN /\ lastReq.status = 404
             /\ DOMAIN lastReq.body = {"error"}
             /\ lastReq.calls = <<>>
        ELSE lastReq.status # 404

\* A challenge for d.PDF, whose only upload could not be parsed.
C4_Witness ==
    /\ lastReq.op = "challenge"
    /\ lastReq.in.documentName = Some(F_pdf)
    /\ upHist[F_pdf] = <<None>>
    /\ F_pdf \notin everOk
    /\ lastReq.status = 404

\* C9: a lookup rejected with 400 or 404 made no gateway call, and one that
\* made a call had its fields present and its document stored; upload, ask and
\* challenge make at most one call, and none before the checks and the
\* extraction passed; an evaluation makes exactly one call per question, the
\* i-th for the i-th question, whatever the calls returned.
C9_GatewayCalls ==
    /\ (IsLookup /\ lastReq.status \in {400, 404}) => lastReq.calls = <<>>
    /\ (IsLookup /\ lastReq.calls # <<>>) =>
          FieldsPresent /\ LookedUp \in DOMAIN document_content
    /\ lastReq.op \in {"upload", "ask", "challenge"} => Len(lastReq.calls) <= 1
    /\ (lastReq.op = "upload" /\ lastReq.calls # <<>>) =>
          /\ UploadRejection(lastReq.in) = ""
          /\ Truthy(ExtractFor(lastReq.in.filename, lastReq.in.bytes))
    /\ (lastReq.op = "evaluate_challenge" /\ lastReq.status = 200) =>
          /\ Len(lastReq.calls) = Len(lastReq.in.questions)
          /\ \A i \in 1..Len(lastReq.calls) :
                lastReq.calls[i].prompt[4] = lastReq.in.questions[i]

\* An evaluation of two questions whose first call failed: two calls in all.
C9_Witness ==
    /\ lastReq.op = "evaluate_challenge"
    /\ lastReq.status = 200
    /\ Len(lastReq.in.questions) = 2
    /\ Len(lastReq.calls) = 2
    /\ lastReq.calls[1].result = None

UploadEndedIn(req, msg) ==
    /\ req.op = "upload"
    /\ "error" \in DOMAIN req.body
    /\ req.body.error = msg

GenerationFailed(req) == UploadEndedIn(req, "Failed to generate summary")

\* C10: an upload that ends in "Failed to generate summary" has put the text it
\* extracted (the text its summary prompt embeds) in the store under its name,
\* and a lookup of that name right after it is not answered 404; an upload
\* answered 400 or "Failed to extract text from document" leaves the store as
\* it was, and any other upload stores what it extracted.
C10_StoredBeforeSummary ==
    [][ /\ GenerationFailed(lastReq') =>
              /\ lastReq'.in.filename \in DOMAIN document_content'
              /\ document_content'[lastReq'.in.filename] = lastReq'.calls[1].prompt[2]
              /\ Some(lastReq'.calls[1].prompt[2])
                    = upHist'[lastReq'.in.filename][Len(upHist'[lastReq'.in.filename])]
        /\ (GenerationFailed(lastReq) /\ lastReq'.op \in Lookups
               /\ Truthy(lastReq'.in.documentName)
               /\ lastReq'.in.documentName[1] = lastReq.in.filename) =>
              lastReq'.status # 404
        /\ lastReq'.op = "upload" =>
              IF \/ lastReq'.status = 400
                 \/ UploadEndedIn(lastReq', "Failed to extract text from document")
              THEN document_content' = document_content
              ELSE document_content' =
                      (lastReq'.in.filename :> lastReq'.calls[1].prompt[2]) @@ document_content
      ]_vars

\* An upload of n.txt whose summary failed, and the record it left.
C10_Witness ==
    /\ GenerationFailed(lastReq)
    /\ lastReq.status = 500
    /\ lastReq.in.filename = F_txt
    /\ document_content[F_txt] = <<"[Line 1] ", " ", "a">>
    /\ lastReq.calls[1].result = None

-----------------------------------------------------------------------------
(* Claims about concurrent uploads *)

BothDone == \A w \in Workers : pc[w] = "done"

\* Both uploads are of one name, with different bytes, and both extracted.
RacedAndExtracted ==
    /\ BothDone
    /\ loc[1].file.filename = loc[2].file.filename
    /\ loc[1].file.bytes # loc[2].file.bytes
    /\ \A w \in Workers : Truthy(loc[w].extracted)

LastWriter == writeLog[Len(writeLog)]
TextOf(bytes) == extract_text_from_txt(bytes)[1]

\* C8 as stated: once two concurrent uploads of one name with different bytes
\* have both completed with a successful extraction, the stored text is the
\* addressable text of the bytes of the upload that wrote the store last.
C8_LastWriteWins ==
    RacedAndExtracted =>
        document_content[loc[1].file.filename] = TextOf(loc[LastWriter].file.bytes)

\* C8 amended: the stored text is the text written by the upload whose store
\* write happened last: the addressable text of what the file both uploads
\* save to held when that upload read it, which need not be its own bytes.
C8_LastStoreWriteWins ==
    RacedAndExtracted =>
        /\ document_content[loc[1].file.filename] = TextOf(loc[LastWriter].read)
        /\ document_content[loc[1].file.filename] = loc[LastWriter].extracted[1]

\* The upload that wrote the store last had read the other upload's bytes.
C8_Witness ==
    /\ RacedAndExtracted
    /\ LastWriter = 1
    /\ loc[1].read = loc[2].file.bytes
    /\ loc[1].extracted[1] = TextOf(loc[2].file.bytes)
    /\ loc[1].extracted[1] # TextOf(loc[1].file.bytes)
    /\ document_content[loc[1].file.filename] = TextOf(loc[2].file.bytes)

====
